---- MODULE Spec2Model ----
(***************************************************************************)
(* Model of the two walkthrough programs of the repository:                *)
(*   selenium_setup_guide.py : driver set-up helpers, the WebAutomation    *)
(*                             session class and main()                    *)
(*   python_debug_logging.py : the AppLogger facade over the standard      *)
(*                             logging module, the logging examples, the   *)
(*                             log_function_call decorator, DaifukuShop    *)
(*                             and the __main__ script                     *)
(* The browser driver (selenium) and the logging library are collaborators *)
(* outside the repository: every remote call may succeed or raise, which   *)
(* the actions below take as an input.                                     *)
(***************************************************************************)
EXTENDS Integers, Sequences, FiniteSets, TLC

\* ------------------------------------------------------------------ bounds
MaxCalls == 4       \* calls a caller makes on one WebAutomation object
MaxHandles == 3     \* browsers the provisioning collaborator hands out
MaxResults == 4     \* <h3> elements a result page may hold
MaxBuilt == 3       \* AppLogger objects constructed in one process
MaxShopCalls == 3   \* make_daifuku / sell calls made on one DaifukuShop
MaxCount == 2       \* largest count passed to make_daifuku / sell
MaxPrice == 2       \* largest price passed to sell
MaxFileLogs == 2    \* calls of file_logging_example() in one process

VARIABLES
  driver,      \* WebAutomation.driver: NoDriver (None) or a handle id
  started,     \* the handle the last successful start() stored in driver
  acquired,    \* number of browsers created so far (handles 1..acquired)
  quitCalls,   \* quitCalls[h]: number of quit() calls made on handle h
  raised,      \* exception that left the last call ("None" if it returned)
  lastCall,    \* the function or method invoked last
  calls,       \* number of WebAutomation method calls made so far
  callLog,     \* records the module logger emitted during the last call
  remoteLog,   \* remote operations the last call sent to a handle
  pc,          \* main(): position in the script
  driver1,     \* main(): local driver1
  driver2,     \* main(): local driver2
  exc,         \* main(): call whose exception is in flight in a try block
  uncaught,    \* main(): call whose exception left main()
  output,      \* main(): every record logged since main() began
  handlers,    \* handlers[name]: handler list of logging.getLogger(name)
  rootHandlers,\* handler list of the root logger
  built,       \* number of AppLogger objects constructed so far
  logOp,       \* the logging operation performed last
  record,      \* the record logged last (NoRecord before the first)
  delivered,   \* the handlers that emitted that record
  complete,    \* complete[name]: the handler lists constructions left on it
  ctor,        \* thread running AppLogger.__init__: position and arguments
  emit,        \* thread running a log call: position in callHandlers
  lastInit,    \* arguments of the last AppLogger(...) call of a sequential user
  logRaised,   \* exception that left the last logging operation
  diagnosed,   \* handlers whose emit failed on the last record (handleError)
  moduleHandlers, \* handler list of logging.getLogger(__name__)
  fileLogs,    \* number of file_logging_example() calls made so far
  implicitWait,\* implicitWait[h]: implicit wait (seconds) set on handle h
  untilUnder,  \* implicit wait in force at each until() of the last call
  wrapLog,     \* records the log_function_call wrapper wrote in its last call
  fCalls,      \* outcome of each call the last wrapper call made to func
  wrapOut,     \* how the last wrapper call ended: value returned or raised
  stock,       \* DaifukuShop.stock
  sales,       \* DaifukuShop.sales
  shopRet,     \* the last make_daifuku / sell call: arguments and return value
  shopCalls,   \* number of make_daifuku / sell calls made so far
  demoPc,      \* __main__ of python_debug_logging.py: position in the script
  demoUncaught,\* exception that ended that script ("None" while it runs)
  demoTrace    \* per finished step, the sinks that failed during it

sessionVars == <<driver, started, acquired, quitCalls, raised, lastCall, calls,
                 callLog, remoteLog>>
mainVars == <<pc, driver1, driver2, exc, uncaught, output>>
logVars == <<handlers, rootHandlers, built, logOp, record, delivered, complete>>
threadVars == <<ctor, emit>>
faultVars == <<lastInit, logRaised, diagnosed>>
moduleVars == <<moduleHandlers, fileLogs>>
waitVars == <<implicitWait, untilUnder>>
wrapVars == <<wrapLog, fCalls, wrapOut>>
shopVars == <<stock, sales, shopRet, shopCalls>>
demoVars == <<demoPc, demoUncaught, demoTrace>>
appVars == <<moduleVars, wrapVars, shopVars, demoVars>>
vars == <<driver, started, acquired, quitCalls, raised, lastCall, calls,
          callLog, remoteLog, pc, driver1, driver2, exc, uncaught, output,
          handlers, rootHandlers, built, logOp, record, delivered, complete,
          ctor, emit, lastInit, logRaised, diagnosed, moduleHandlers, fileLogs,
          implicitWait, untilUnder, wrapLog, fCalls, wrapOut,
          stock, sales, shopRet, shopCalls, demoPc, demoUncaught, demoTrace>>

NoDriver == 0
Handles == 1..MaxHandles

Min(a, b) == IF a < b THEN a ELSE b

\* ------------------------------------------------------- scripted bodies
\* The body of a try block as the sequence of its steps: R a remote
\* operation on the driver, L a record written with the module logger.
R(op) == [k |-> "R", v |-> op]
L(msg) == [k |-> "L", v |-> msg]

IsR(e) == e.k = "R"
IsL(e) == e.k = "L"
Names(es) == [i \in 1..Len(es) |-> es[i].v]
NumRemote(script) == Len(SelectSeq(script, IsR))

\* Index in the script of its n-th remote operation.
RemotePos(script, n) ==
  CHOOSE i \in 1..Len(script) :
    /\ IsR(script[i])
    /\ Cardinality({j \in 1..i : IsR(script[j])}) = n

\* Steps executed when the failAt-th remote operation raises (0: none does):
\* everything up to and including the operation that raised.
Executed(script, failAt) ==
  IF failAt = 0 THEN script ELSE SubSeq(script, 1, RemotePos(script, failAt))

\* An except clause that sends the failed operation once more before it
\* logs and re-raises.
TryLogReraise_retry(script, failAt, errMsg) ==
  LET ex == Executed(script, failAt)
      ops == Names(SelectSeq(ex, IsR)) IN
  [ remote |-> IF failAt = 0 THEN ops ELSE Append(ops, ops[Len(ops)]),
    log    |-> Names(SelectSeq(ex, IsL)) \o (IF failAt = 0 THEN <<>> ELSE <<errMsg>>),
    raised |-> IF failAt = 0 THEN "None" ELSE "WebDriverException" ]

\* try: <script> except Exception as e: logger.error(errMsg); raise
TryLogReraise(script, failAt, errMsg) ==
  LET ex == Executed(script, failAt) IN
  [ remote |-> Names(SelectSeq(ex, IsR)),
    log    |-> Names(SelectSeq(ex, IsL)) \o (IF failAt = 0 THEN <<>> ELSE <<errMsg>>),
    raised |-> IF failAt = 0 THEN "None" ELSE "WebDriverException" ]

\* One result line: result.text is read, then the line is logged.
ResultLines(k) ==
  [i \in 1..(2 * k) |-> IF i % 2 = 1 THEN R("text") ELSE L("INFO result")]

\* ------------------------------------------------------ logging levels
\* Numeric values of the level names of the logging module.
NOTSET == 0
DEBUG == 10
INFO == 20
WARNING == 30
ERROR == 40
CRITICAL == 50

LevelNames == {"DEBUG", "INFO", "WARNING", "ERROR", "CRITICAL"}

\* The level of the record written by AppLogger.debug / info / warning /
\* error / critical, each of which calls the method of the same name.
LevelNo(lv) ==
  CASE lv = "DEBUG" -> DEBUG
    [] lv = "INFO" -> INFO
    [] lv = "WARNING" -> WARNING
    [] lv = "ERROR" -> ERROR
    [] lv = "CRITICAL" -> CRITICAL

LoggerNames == {"Shop", "ErrorDemo"}
NoRecord == [name |-> "", level |-> ""]
NoOutcome == [kind |-> "none", value |-> "none"]
NoCall == [op |-> "none", count |-> 0, price |-> 0, ret |-> FALSE]

\* ------------------------------------------------------------ handlers
\* StreamHandler(sys.stdout) with setLevel(INFO), built by the g-th AppLogger.
ConsoleHandler(g) == [kind |-> "console", level |-> INFO, gen |-> g]

\* FileHandler(log_file) with setLevel(DEBUG), built by the g-th AppLogger.
FileHandler(g) == [kind |-> "file", level |-> DEBUG, gen |-> g]

\* The stream handler basicConfig() installs on the root logger; its level
\* is left unset.
RootHandler == [kind |-> "stderr", level |-> NOTSET, gen |-> 0]

\* The handler of last resort, used when a record finds no handler at all.
LastResort == [kind |-> "lastResort", level |-> WARNING, gen |-> 0]

\* The level AppLogger.__init__ sets on the named logger.
LoggerLevel == DEBUG

\* Logger.isEnabledFor as Logger.debug etc. consult it.
IsEnabledFor(levelno) == levelno >= LoggerLevel

\* A handler that drops the records logged exactly at its own level.
Emits_strict(h, levelno) == levelno > h.level

\* The test callHandlers applies to each handler it visits.
Emits(h, levelno) == levelno >= h.level

Range(seq) == {seq[i] : i \in 1..Len(seq)}

\* Logger.callHandlers on a snapshot: the logger's own handlers, then (the
\* logger propagates) the root's; each emits the record if its level
\* allows; the handler of last resort serves a record that found none.
CallHandlers(own, root, levelno) ==
  LET visited == Range(own) \cup Range(root) IN
  IF visited = {}
    THEN {h \in {LastResort} : Emits(h, levelno)}
    ELSE {h \in visited : Emits(h, levelno)}

\* A clear() that leaves the list as it was.
ClearHandlers_keep(hs) == hs

\* self.logger.handlers.clear()
ClearHandlers(hs) == <<>>

\* Logger.addHandler: append unless the handler is in the list already.
AddHandler(hs, h) == IF h \in Range(hs) THEN hs ELSE Append(hs, h)

\* The handler list AppLogger.__init__ leaves on a logger that held the
\* list old: old cleared, a console handler, and a file handler if
\* log_to_file.
NewHandlers(old, g, log_to_file) ==
  LET withConsole == AddHandler(ClearHandlers(old), ConsoleHandler(g)) IN
  IF log_to_file THEN AddHandler(withConsole, FileHandler(g)) ELSE withConsole

\* Handlers whose emit lets the exception out: the first handler that
\* fails ends the loop and the log call.
HandleAll_propagating(own, root, levelno, broken) ==
  LET reached == SelectSeq(own \o root, LAMBDA h : Emits(h, levelno))
      bad == {i \in 1..Len(reached) : reached[i] \in broken} IN
  IF bad = {}
    THEN [written |-> CallHandlers(own, root, levelno), diagnosed |-> {},
          raised |-> "None"]
    ELSE [written |-> {reached[i] : i \in {j \in 1..Len(reached) :
                                              \A k \in bad : j < k}},
          diagnosed |-> {reached[i] : i \in {j \in bad : \A k \in bad : j <= k}},
          raised |-> "OSError"]

\* Handler.handle on every handler callHandlers reaches, some of which
\* (broken) raise inside emit: each emit runs in its own try block whose
\* except clause calls handleError, which reports on stderr and returns, so
\* the loop goes on to the next handler and nothing is raised.
HandleAll(own, root, levelno, broken) ==
  LET reached == CallHandlers(own, root, levelno) IN
  [ written   |-> reached \ broken,
    diagnosed |-> reached \cap broken,
    raised    |-> "None" ]

CtorIdle == [pc |-> "idle", name |-> "", log_to_file |-> FALSE]
NoInit == [name |-> "", log_to_file |-> FALSE]
EmitIdle == [pc |-> "idle", idx |-> 0, found |-> 0]

\* ------------------------------------------------- single-threaded logging
\* basic_logging_example(): basicConfig() gives the root logger a handler
\* unless it has one; five records follow on the root logger, the last one
\* at CRITICAL.  broken: the handlers that fail to write meanwhile.
basic_logging_example(broken) ==
  LET r == HandleAll(<<>>, rootHandlers', CRITICAL, broken) IN
  /\ rootHandlers' = IF rootHandlers = <<>> THEN <<RootHandler>> ELSE rootHandlers
  /\ record' = [name |-> "root", level |-> "CRITICAL"]
  /\ delivered' = r.written
  /\ logOp' = "basicConfig"
  /\ logRaised' = r.raised
  /\ diagnosed' = r.diagnosed
  /\ UNCHANGED <<handlers, built, complete, lastInit>>

\* AppLogger(name, log_to_file)
AppLoggerInit(name, log_to_file) ==
  /\ built' = built + 1
  /\ handlers' = [handlers EXCEPT ![name] = NewHandlers(@, built + 1, log_to_file)]
  /\ complete' = [complete EXCEPT ![name] = @ \cup {handlers'[name]}]
  /\ logOp' = "AppLogger"
  /\ lastInit' = [name |-> name, log_to_file |-> log_to_file]
  /\ logRaised' = "None"
  /\ UNCHANGED <<rootHandlers, record, delivered, diagnosed>>

\* AppLogger(name, True) when os.makedirs or FileHandler(log_file) raises:
\* the old handlers are cleared and the console handler is added by then,
\* and the exception leaves the constructor.
AppLoggerInitFails(name) ==
  /\ built' = built + 1
  /\ handlers' = [handlers EXCEPT ![name] = NewHandlers(@, built + 1, FALSE)]
  /\ logOp' = "AppLogger"
  /\ lastInit' = [name |-> name, log_to_file |-> TRUE]
  /\ logRaised' = "OSError"
  /\ UNCHANGED <<rootHandlers, record, delivered, diagnosed, complete>>

\* AppLogger.debug / info / warning / error / critical on the logger `name`
AppLoggerLog(name, lv) ==
  /\ record' = [name |-> name, level |-> lv]
  /\ delivered' = IF IsEnabledFor(LevelNo(lv))
                    THEN CallHandlers(handlers[name], rootHandlers, LevelNo(lv))
                    ELSE {}
  /\ logOp' = "log"
  /\ logRaised' = "None"
  /\ diagnosed' = {}
  /\ UNCHANGED <<handlers, rootHandlers, built, complete, lastInit>>

\* error_handling_with_logging(): AppLogger("ErrorDemo", log_to_file=False),
\* divide(10, 2), then divide(10, 0), whose ZeroDivisionError is caught,
\* logged at ERROR (the last record) and turned into a return of None.
error_handling_with_logging(broken) ==
  LET hs == NewHandlers(handlers["ErrorDemo"], built + 1, FALSE)
      r == HandleAll(hs, rootHandlers, ERROR, broken) IN
  /\ built' = built + 1
  /\ handlers' = [handlers EXCEPT !["ErrorDemo"] = hs]
  /\ complete' = [complete EXCEPT !["ErrorDemo"] = @ \cup {hs}]
  /\ lastInit' = [name |-> "ErrorDemo", log_to_file |-> FALSE]
  /\ record' = [name |-> "ErrorDemo", level |-> "ERROR"]
  /\ delivered' = r.written
  /\ diagnosed' = r.diagnosed
  /\ logRaised' = r.raised
  /\ logOp' = "error_handling_with_logging"
  /\ UNCHANGED rootHandlers

\* log_function_call(x): whatever x is, the inner function decorator is
\* returned, with x bound as its logger.
log_function_call(x) == [kind |-> "decorator", logger |-> x]

\* Calling a value with nargs positional arguments: decorator(func) takes
\* exactly one and returns the wrapper; another number is a TypeError
\* raised before its body is entered.  A plain function runs.
CallValue(v, nargs) ==
  IF v.kind = "decorator"
    THEN IF nargs = 1 THEN [raised |-> "None", value |-> "wrapper"]
                      ELSE [raised |-> "TypeError", value |-> "none"]
    ELSE [raised |-> "None", value |-> "result"]

\* The same call while the handlers in broken fail to format or write.
AppLoggerLogFailing(name, lv, broken) ==
  LET r == IF IsEnabledFor(LevelNo(lv))
             THEN HandleAll(handlers[name], rootHandlers, LevelNo(lv), broken)
             ELSE [written |-> {}, diagnosed |-> {}, raised |-> "None"] IN
  /\ record' = [name |-> name, level |-> lv]
  /\ delivered' = r.written
  /\ diagnosed' = r.diagnosed
  /\ logRaised' = r.raised
  /\ logOp' = "log"
  /\ UNCHANGED <<handlers, rootHandlers, built, complete, lastInit>>

\* file_logging_example(): mkdir, a new FileHandler (DEBUG) on a file named
\* after the current time and a new StreamHandler (INFO), both added to
\* logging.getLogger(__name__); four records follow, the last one at ERROR.
\* ioFails: mkdir or FileHandler(log_file) raises, before any addHandler.
\* broken: the handlers that fail to write meanwhile.
file_logging_example(ioFails, broken) ==
  LET g == fileLogs + 1
      added == AddHandler(AddHandler(moduleHandlers, FileHandler(g)),
                          ConsoleHandler(g))
      r == HandleAll(added, rootHandlers, ERROR, broken) IN
  /\ fileLogs' = g
  /\ moduleHandlers' = IF ioFails THEN moduleHandlers ELSE added
  /\ record' = IF ioFails THEN record ELSE [name |-> "__main__", level |-> "ERROR"]
  /\ delivered' = IF ioFails THEN delivered ELSE r.written
  /\ logOp' = "file_logging_example"
  /\ logRaised' = IF ioFails THEN "OSError" ELSE r.raised
  /\ diagnosed' = IF ioFails THEN {} ELSE r.diagnosed
  /\ UNCHANGED <<handlers, rootHandlers, built, complete, lastInit>>

\* ---------------------------------------------------- log_function_call
\* What a call of the wrapped function does: return a value or raise.
Returns(v) == [kind |-> "return", value |-> v]
Raises(e) == [kind |-> "raise", value |-> e]

\* Exceptions a wrapped function may raise.  KeyboardInterrupt derives from
\* BaseException only, so `except Exception` does not catch it.
ExceptionKinds == {"ValueError", "KeyboardInterrupt"}
IsException(e) == e # "KeyboardInterrupt"

\* A wrapper that turns the exception of func into a normal return of None.
wrapper_swallow(fOut) ==
  [ trace |-> <<"INFO start", "DEBUG args", "CALL func">> \o
              (IF fOut.kind = "return"
                 THEN <<"INFO success", "DEBUG return value">>
                 ELSE <<"ERROR failed">>),
    calls |-> <<fOut>>,
    out   |-> IF fOut.kind = "return" THEN fOut ELSE Returns("None") ]

\* wrapper(*args, **kwargs) of log_function_call(logger)(func), for a call
\* in which func does fOut: the records it writes and its one call of func,
\* in order, and how it ends.
wrapper(fOut) ==
  [ trace |-> <<"INFO start", "DEBUG args", "CALL func">> \o
              (IF fOut.kind = "return"
                 THEN <<"INFO success", "DEBUG return value">>
                 ELSE IF IsException(fOut.value)
                        THEN <<"ERROR failed">>
                        ELSE <<>>),
    calls |-> <<fOut>>,
    out   |-> fOut ]

\* ------------------------------------------------------------ DaifukuShop
\* Body of DaifukuShop.make_daifuku(count) on a shop in state s.
make_daifuku(s, count) ==
  IF count <= 0
    THEN [stock |-> s.stock, sales |-> s.sales, ret |-> FALSE]
    ELSE [stock |-> s.stock + count, sales |-> s.sales, ret |-> TRUE]

\* Body of DaifukuShop.sell(count, price) on a shop in state s.
sell(s, count, price) ==
  IF count <= 0
    THEN [stock |-> s.stock, sales |-> s.sales, ret |-> FALSE]
  ELSE IF s.stock < count
    THEN [stock |-> s.stock, sales |-> s.sales, ret |-> FALSE]
  ELSE [stock |-> s.stock - count, sales |-> s.sales + count * price,
        ret |-> TRUE]

\* Arguments a caller may pass: the bodies accept any number.
Counts == (-1)..MaxCount
Prices == (-1)..MaxPrice

\* A call of one of the two bodies, made directly or through a wrapper.
ShopCall(op, count, price) ==
  LET s == [stock |-> stock, sales |-> sales]
      r == IF op = "make_daifuku" THEN make_daifuku(s, count)
                                  ELSE sell(s, count, price) IN
  /\ stock' = r.stock
  /\ sales' = r.sales
  /\ shopRet' = [op |-> op, count |-> count, price |-> price, ret |-> r.ret]
  /\ shopCalls' = shopCalls + 1

\* ------------------------------------------------- driver initialisation
\* Where an initialisation may raise.  "ok": no step raises.
SetupStages == {"ok", "install", "chrome", "configure"}

\* The browser is running once webdriver.Chrome(...) has returned, that is
\* when no step raises or when the configuration step after it raises.
CreatesBrowser(stage) == stage \in {"ok", "configure"}

\* setup_driver(): install, Chrome(), maximize_window(); the except clause
\* logs and re-raises without touching the local driver.
setup_driver(stage, n) ==
  [ acquired |-> IF CreatesBrowser(stage) THEN n + 1 ELSE n,
    ret      |-> IF stage = "ok" THEN n + 1 ELSE NoDriver,
    raised   |-> IF stage = "ok" THEN "None" ELSE "WebDriverException",
    log      |-> <<"INFO init">> \o
                 (IF stage = "ok" THEN <<"INFO init done">> ELSE <<"ERROR init failed">>) ]

\* driver.implicitly_wait(10)
ImplicitWaitSeconds == 10

\* setup_driver_with_options(): install, Chrome(options), implicitly_wait(10);
\* the except clause logs and re-raises without touching the local driver.
\* implicit: the implicit wait the new browser is left with.
setup_driver_with_options(stage, n) ==
  [ acquired |-> IF CreatesBrowser(stage) THEN n + 1 ELSE n,
    ret      |-> IF stage = "ok" THEN n + 1 ELSE NoDriver,
    implicit |-> IF stage = "ok" THEN ImplicitWaitSeconds ELSE 0,
    raised   |-> IF stage = "ok" THEN "None" ELSE "WebDriverException",
    log      |-> <<"INFO init options">> \o
                 (IF stage = "ok" THEN <<"INFO init done">> ELSE <<"ERROR init failed">>) ]

\* ------------------------------------------------------ the two examples
\* example_google_search(driver) on a page with n results.
GoogleSearchScript(n) ==
  << L("INFO open google"), R("get"),
     L("INFO find box"), R("find_element"),
     L("INFO type keyword"), R("send_keys"),
     L("INFO run search"), R("send_keys"),
     R("title"), L("INFO title"),
     L("INFO get results"), R("find_elements") >>
    \o ResultLines(Min(n, 5))
    \o << L("INFO search done") >>

example_google_search(n, failAt) ==
  TryLogReraise(GoogleSearchScript(n), failAt, "ERROR failed")

\* example_wait_for_element(driver): two explicit waits on the search box.
WaitScript ==
  << L("INFO wait example"), R("get"),
     R("until presence"), L("INFO box found"),
     R("until clickable"), R("send_keys"), R("send_keys"),
     L("INFO wait done") >>

example_wait_for_element(failAt) ==
  TryLogReraise(WaitScript, failAt, "ERROR failed")

\* The argument of a driver.implicitly_wait(...) call; -1 for another
\* remote operation.
ImplicitArg(op) ==
  CASE op = "implicitly_wait(0)" -> 0
    [] op = "implicitly_wait(10)" -> ImplicitWaitSeconds
    [] OTHER -> -1

IsUntil(op) == op \in {"until presence", "until clickable"}

\* The implicit wait in force when the i-th of the remote operations ops
\* runs on a driver whose implicit wait was w0 before the first: the
\* argument of the last implicitly_wait call before it, if there is one.
ImplicitAt(ops, i, w0) ==
  LET sets == {j \in 1..(i - 1) : j <= Len(ops) /\ ImplicitArg(ops[j]) >= 0} IN
  IF sets = {} THEN w0
  ELSE ImplicitArg(ops[CHOOSE j \in sets : \A k \in sets : k <= j])

\* The implicit wait in force at each WebDriverWait.until call among ops.
UntilUnder(ops, w0) ==
  LET idx == SelectSeq([i \in 1..Len(ops) |-> i], LAMBDA i : IsUntil(ops[i])) IN
  [k \in 1..Len(idx) |-> ImplicitAt(ops, idx[k], w0)]

\* --------------------------------------------------------- WebAutomation
\* WebAutomation.start(): self.driver = setup_driver_with_options().
\* The assignment happens only when the set-up returns.
start(stage) ==
  LET r == setup_driver_with_options(stage, acquired) IN
  /\ acquired' = r.acquired
  /\ driver' = IF r.raised = "None" THEN r.ret ELSE driver
  /\ started' = IF r.raised = "None" THEN r.ret ELSE started
  /\ raised' = r.raised
  /\ callLog' = <<"INFO start browser">> \o r.log
  /\ remoteLog' = <<>>
  /\ quitCalls' = quitCalls
  /\ implicitWait' = IF r.raised = "None"
                       THEN [implicitWait EXCEPT ![r.ret] = r.implicit]
                       ELSE implicitWait
  /\ lastCall' = "start"
  /\ calls' = calls + 1

\* stop() that forgets the browser without closing it.
stop_without_quit(quitFails) ==
  /\ callLog' = IF driver # NoDriver THEN <<"INFO stop browser">> ELSE <<>>
  /\ remoteLog' = <<>>
  /\ driver' = NoDriver
  /\ raised' = "None"
  /\ UNCHANGED <<started, acquired, quitCalls>>
  /\ lastCall' = "stop"
  /\ calls' = calls + 1

\* WebAutomation.stop(): if self.driver: log; self.driver.quit();
\* self.driver = None.  quitFails: quit() raises, and the assignment after
\* it is not reached.
stop(quitFails) ==
  /\ IF driver # NoDriver
       THEN /\ callLog' = <<"INFO stop browser">>
            /\ remoteLog' = <<"quit">>
            /\ quitCalls' = [quitCalls EXCEPT ![driver] = @ + 1]
            /\ driver' = IF quitFails THEN driver ELSE NoDriver
            /\ raised' = IF quitFails THEN "WebDriverException" ELSE "None"
       ELSE /\ callLog' = <<>>
            /\ remoteLog' = <<>>
            /\ quitCalls' = quitCalls
            /\ driver' = driver
            /\ raised' = "None"
  /\ UNCHANGED <<started, acquired>>
  /\ lastCall' = "stop"
  /\ calls' = calls + 1

\* The try block of search_daifuku_recipe on a page with n results:
\* get, find_element, send_keys(keyword), send_keys(RETURN), find_elements,
\* the count, then one line for each of results[:3].
SearchScript(n) ==
  << L("INFO search"), R("get"), R("find_element"),
     R("send_keys keyword"), R("send_keys RETURN"),
     R("find_elements"), L("INFO result count") >>
    \o ResultLines(Min(n, 3))

\* The guard of both action methods: raise ValueError, nothing else.
RaiseNotStarted ==
  /\ raised' = "ValueError"
  /\ callLog' = <<>>
  /\ remoteLog' = <<>>

\* The try/except of an action method run against the driver.
RunAction(script, failAt, errMsg) ==
  LET r == TryLogReraise(script, failAt, errMsg) IN
  /\ remoteLog' = r.remote
  /\ callLog' = r.log
  /\ raised' = r.raised

\* search_daifuku_recipe without the guard: the first remote call is made
\* on None, and the except clause logs and re-raises the AttributeError.
search_daifuku_recipe_unguarded(n, failAt) ==
  /\ IF driver = NoDriver
       THEN /\ raised' = "AttributeError"
            /\ callLog' = <<"INFO search", "ERROR search">>
            /\ remoteLog' = <<>>
       ELSE RunAction(SearchScript(n), failAt, "ERROR search")
  /\ UNCHANGED <<driver, started, acquired, quitCalls>>
  /\ lastCall' = "search"
  /\ calls' = calls + 1

\* search_daifuku_recipe that starts a browser itself when there is none.
search_daifuku_recipe_autostart(n, failAt) ==
  LET fresh == driver = NoDriver /\ acquired < MaxHandles IN
  /\ IF driver = NoDriver /\ ~fresh
       THEN RaiseNotStarted
       ELSE RunAction(SearchScript(n), failAt, "ERROR search")
  /\ driver' = IF fresh THEN acquired + 1 ELSE driver
  /\ started' = IF fresh THEN acquired + 1 ELSE started
  /\ acquired' = IF fresh THEN acquired + 1 ELSE acquired
  /\ quitCalls' = quitCalls
  /\ lastCall' = "search"
  /\ calls' = calls + 1

\* WebAutomation.search_daifuku_recipe(): the guard raises ValueError before
\* anything else; otherwise the remote operations run in order and the one
\* at position failAt (0: none) raises, is logged and re-raised.
search_daifuku_recipe(n, failAt) ==
  /\ IF driver = NoDriver
       THEN RaiseNotStarted
       ELSE RunAction(SearchScript(n), failAt, "ERROR search")
  /\ UNCHANGED <<driver, started, acquired, quitCalls>>
  /\ lastCall' = "search"
  /\ calls' = calls + 1

ScreenshotScript == << R("save_screenshot"), L("INFO screenshot saved") >>

\* WebAutomation.take_screenshot(): the same guard, then save_screenshot.
take_screenshot(failAt) ==
  /\ IF driver = NoDriver
       THEN RaiseNotStarted
       ELSE RunAction(ScreenshotScript, failAt, "ERROR screenshot")
  /\ UNCHANGED <<driver, started, acquired, quitCalls>>
  /\ lastCall' = "screenshot"
  /\ calls' = calls + 1

\* ------------------------------------------- a caller of one WebAutomation
\* WebAutomation(): driver = None, one record logged.  main() is at its
\* first statement.
InitSession ==
  /\ driver = NoDriver
  /\ started = NoDriver
  /\ acquired = 0
  /\ quitCalls = [h \in Handles |-> 0]
  /\ raised = "None"
  /\ lastCall = "none"
  /\ calls = 0
  /\ callLog = <<"INFO WebAutomation init">>
  /\ remoteLog = <<>>
  /\ pc = "method1_setup"
  /\ driver1 = NoDriver
  /\ driver2 = NoDriver
  /\ exc = "None"
  /\ uncaught = "None"
  /\ output = <<>>

\* The logging module as imported: no named logger has a handler, the root
\* logger has none, nothing was logged.
InitLogging ==
  /\ handlers = [n \in LoggerNames |-> <<>>]
  /\ rootHandlers = <<>>
  /\ built = 0
  /\ logOp = "none"
  /\ record = NoRecord
  /\ delivered = {}
  /\ complete = [n \in LoggerNames |-> {<<>>}]
  /\ lastInit = NoInit
  /\ logRaised = "None"
  /\ diagnosed = {}

\* No thread is inside a constructor or a log call.
InitThreads ==
  /\ ctor = CtorIdle
  /\ emit = EmitIdle

\* No implicit wait is set on any handle, no explicit wait has run.
InitWait ==
  /\ implicitWait = [h \in Handles |-> 0]
  /\ untilUnder = <<>>

\* python_debug_logging.py as imported, at the first statement of its
\* __main__ block: the module logger has no handler, no wrapper was called,
\* a new shop holds no stock and has sold nothing.
InitApp ==
  /\ moduleHandlers = <<>>
  /\ fileLogs = 0
  /\ wrapLog = <<>>
  /\ fCalls = <<>>
  /\ wrapOut = NoOutcome
  /\ stock = 0
  /\ sales = 0
  /\ shopRet = NoCall
  /\ shopCalls = 0
  /\ demoPc = "basic_logging_example"
  /\ demoUncaught = "None"
  /\ demoTrace = <<>>

Init == InitSession /\ InitLogging /\ InitThreads /\ InitWait /\ InitApp

CallStart ==
  /\ calls < MaxCalls
  /\ \E stage \in SetupStages :
       /\ CreatesBrowser(stage) => acquired < MaxHandles
       /\ start(stage)
  /\ UNCHANGED <<mainVars, logVars, threadVars, faultVars, untilUnder, appVars>>

CallStop ==
  /\ calls < MaxCalls
  /\ \E quitFails \in BOOLEAN : stop(quitFails)
  /\ UNCHANGED <<mainVars, logVars, threadVars, faultVars, waitVars, appVars>>

CallSearch ==
  /\ calls < MaxCalls
  /\ \E n \in 0..MaxResults : \E failAt \in 0..NumRemote(SearchScript(n)) :
       search_daifuku_recipe(n, failAt)
  /\ UNCHANGED <<mainVars, logVars, threadVars, faultVars, waitVars, appVars>>

CallScreenshot ==
  /\ calls < MaxCalls
  /\ \E failAt \in 0..NumRemote(ScreenshotScript) : take_screenshot(failAt)
  /\ UNCHANGED <<mainVars, logVars, threadVars, faultVars, waitVars, appVars>>

\* Any caller: the four methods in any order.
Next == CallStart \/ CallStop \/ CallSearch \/ CallScreenshot

Spec == Init /\ [][Next]_vars

\* --------------------------------------- a single-threaded user of logging
BasicLogging ==
  /\ basic_logging_example({})
  /\ UNCHANGED <<sessionVars, mainVars, threadVars, waitVars, appVars>>

Construct ==
  /\ built < MaxBuilt
  /\ \E name \in LoggerNames : \E log_to_file \in BOOLEAN :
       AppLoggerInit(name, log_to_file)
  /\ UNCHANGED <<sessionVars, mainVars, threadVars, waitVars, appVars>>

ConstructFails ==
  /\ built < MaxBuilt
  /\ \E name \in LoggerNames : AppLoggerInitFails(name)
  /\ UNCHANGED <<sessionVars, mainVars, threadVars, waitVars, appVars>>

\* A log call needs an AppLogger object, that is a constructed logger.
LogCall ==
  /\ \E name \in LoggerNames : \E lv \in LevelNames :
       /\ complete[name] # {<<>>}
       /\ AppLoggerLog(name, lv)
  /\ UNCHANGED <<sessionVars, mainVars, threadVars, waitVars, appVars>>

FileLogging ==
  /\ fileLogs < MaxFileLogs
  /\ \E ioFails \in BOOLEAN : file_logging_example(ioFails, {})
  /\ UNCHANGED <<sessionVars, mainVars, threadVars, waitVars>>
  /\ UNCHANGED <<wrapVars, shopVars, demoVars>>

\* A log call during which any of the handlers it reaches may fail.
LogCallFailing ==
  /\ \E name \in LoggerNames : \E lv \in LevelNames :
       /\ complete[name] # {<<>>}
       /\ \E broken \in SUBSET (Range(handlers[name]) \cup Range(rootHandlers)) :
            AppLoggerLogFailing(name, lv, broken)
  /\ UNCHANGED <<sessionVars, mainVars, threadVars, waitVars, appVars>>

NextLog == BasicLogging \/ Construct \/ ConstructFails \/ LogCall \/ FileLogging

SpecLog == Init /\ [][NextLog]_vars

\* The same user on sinks that may fail.
NextFaulty == BasicLogging \/ Construct \/ LogCallFailing

SpecFaulty == Init /\ [][NextFaulty]_vars

\* ------------------------------------------------- a caller of the shop
\* shop.make_daifuku body called with any count
CallMake ==
  /\ shopCalls < MaxShopCalls
  /\ \E count \in Counts : ShopCall("make_daifuku", count, 0)
  /\ UNCHANGED <<sessionVars, mainVars, logVars, threadVars, faultVars, waitVars>>
  /\ UNCHANGED <<moduleVars, wrapVars, demoVars>>

\* shop.sell body called with any count and price
CallSell ==
  /\ shopCalls < MaxShopCalls
  /\ \E count \in Counts : \E price \in Prices : ShopCall("sell", count, price)
  /\ UNCHANGED <<sessionVars, mainVars, logVars, threadVars, faultVars, waitVars>>
  /\ UNCHANGED <<moduleVars, wrapVars, demoVars>>

WrapResult(w) ==
  /\ wrapLog' = w.trace
  /\ fCalls' = w.calls
  /\ wrapOut' = w.out

\* log_function_call(logger)(func)(...) with one of the two bodies as func
CallWrappedBody ==
  /\ shopCalls < MaxShopCalls
  /\ \E op \in {"make_daifuku", "sell"} : \E count \in Counts : \E price \in Prices :
       /\ ShopCall(op, count, price)
       /\ WrapResult(wrapper(Returns(shopRet'.ret)))
  /\ UNCHANGED <<sessionVars, mainVars, logVars, threadVars, faultVars, waitVars>>
  /\ UNCHANGED <<moduleVars, demoVars>>

\* log_function_call(logger)(func)(...) with a func that raises
CallWrappedRaiser ==
  /\ \E e \in ExceptionKinds : WrapResult(wrapper(Raises(e)))
  /\ UNCHANGED <<sessionVars, mainVars, logVars, threadVars, faultVars, waitVars>>
  /\ UNCHANGED <<moduleVars, shopVars, demoVars>>

NextShop == CallMake \/ CallSell \/ CallWrappedBody \/ CallWrappedRaiser

SpecShop == Init /\ [][NextShop]_vars

\* ------------------------------ __main__ of python_debug_logging.py
\* One step of the script is done: its position, and the sinks that failed
\* during the step (each reported on stderr by handleError).
DemoStep(onward) ==
  /\ demoPc' = onward
  /\ demoTrace' = Append(demoTrace, diagnosed')
  /\ UNCHANGED demoUncaught

\* basic_logging_example()
DemoBasicLogging ==
  /\ demoPc = "basic_logging_example"
  /\ \E broken \in SUBSET {RootHandler} : basic_logging_example(broken)
  /\ DemoStep("file_logging_example")
  /\ UNCHANGED <<sessionVars, mainVars, threadVars, waitVars>>
  /\ UNCHANGED <<moduleVars, wrapVars, shopVars>>

\* file_logging_example(), in a directory where logs/ can be written
DemoFileLogging ==
  /\ demoPc = "file_logging_example"
  /\ \E broken \in SUBSET ({FileHandler(fileLogs + 1), ConsoleHandler(fileLogs + 1)}
                             \cup Range(rootHandlers)) :
       file_logging_example(FALSE, broken)
  /\ DemoStep("error_handling_with_logging")
  /\ UNCHANGED <<sessionVars, mainVars, threadVars, waitVars>>
  /\ UNCHANGED <<wrapVars, shopVars>>

\* error_handling_with_logging()
DemoErrorHandling ==
  /\ demoPc = "error_handling_with_logging"
  /\ \E broken \in SUBSET ({ConsoleHandler(built + 1)} \cup Range(rootHandlers)) :
       error_handling_with_logging(broken)
  /\ DemoStep("pdb_example")
  /\ UNCHANGED <<sessionVars, mainVars, threadVars, waitVars>>
  /\ UNCHANGED <<moduleVars, wrapVars, shopVars>>

\* pdb_example(): prints only
DemoPdb ==
  /\ demoPc = "pdb_example"
  /\ demoPc' = "demo_shop"
  /\ UNCHANGED <<demoUncaught, demoTrace>>
  /\ UNCHANGED <<sessionVars, mainVars, logVars, threadVars, faultVars, waitVars>>
  /\ UNCHANGED <<moduleVars, wrapVars, shopVars>>

\* @log_function_call def demo_shop(): ...  then demo_shop(): the name is
\* bound to what log_function_call returns for the function, and that value
\* is called with no argument.  The closing prints follow if it returns.
DemoShop ==
  /\ demoPc = "demo_shop"
  /\ LET demo_shop == log_function_call("demo_shop")
         r == CallValue(demo_shop, 0) IN
     /\ demoUncaught' = r.raised
     /\ demoPc' = IF r.raised = "None" THEN "done" ELSE "crashed"
  /\ UNCHANGED demoTrace
  /\ UNCHANGED <<sessionVars, mainVars, logVars, threadVars, faultVars, waitVars>>
  /\ UNCHANGED <<moduleVars, wrapVars, shopVars>>

NextDemo ==
  \/ DemoBasicLogging \/ DemoFileLogging \/ DemoErrorHandling
  \/ DemoPdb \/ DemoShop

SpecDemo == Init /\ [][NextDemo]_vars

\* ----------------------------------------------------------------- main()
\* An exception that reaches a finally block is re-raised after the block,
\* unless the block raises itself: then the new exception leaves instead.
AfterFinally(blockRaised, onward) ==
  IF blockRaised THEN /\ pc' = "aborted"
                      /\ uncaught' = "quit"
  ELSE IF exc # "None" THEN /\ pc' = "aborted"
                            /\ uncaught' = exc
  ELSE /\ pc' = onward
       /\ uncaught' = uncaught

\* A step of main() on a local driver (not on the WebAutomation object).
LocalStep(name, r) ==
  /\ lastCall' = name
  /\ raised' = r.raised
  /\ callLog' = r.log
  /\ remoteLog' = r.remote
  /\ output' = output \o r.log

\* driver1 = setup_driver(), outside any try block.
Method1Setup ==
  /\ pc = "method1_setup"
  /\ \E stage \in SetupStages :
       LET r == setup_driver(stage, acquired) IN
       /\ acquired' = r.acquired
       /\ driver1' = r.ret
       /\ LocalStep("setup_driver", [raised |-> r.raised, log |-> r.log, remote |-> <<>>])
       /\ pc' = IF r.raised = "None" THEN "method1_search" ELSE "aborted"
       /\ uncaught' = IF r.raised = "None" THEN uncaught ELSE "setup_driver"
  /\ UNCHANGED <<driver, started, quitCalls, calls, driver2, exc>>
  /\ UNCHANGED <<logVars, threadVars, faultVars, waitVars, appVars>>

\* try: example_google_search(driver1)
Method1Search ==
  /\ pc = "method1_search"
  /\ \E n \in 0..MaxResults : \E failAt \in 0..NumRemote(GoogleSearchScript(n)) :
       LET r == example_google_search(n, failAt) IN
       /\ LocalStep("example_google_search", r)
       /\ pc' = IF r.raised = "None" THEN "method1_screenshot" ELSE "method1_finally"
       /\ exc' = IF r.raised = "None" THEN exc ELSE "example_google_search"
  /\ UNCHANGED <<driver, started, acquired, quitCalls, calls, driver1, driver2, uncaught>>
  /\ UNCHANGED <<logVars, threadVars, faultVars, waitVars, appVars>>

\* driver1.save_screenshot(...); logger.info(...)
Method1Screenshot ==
  /\ pc = "method1_screenshot"
  /\ \E fails \in BOOLEAN :
       /\ LocalStep("save_screenshot",
                    [raised |-> IF fails THEN "WebDriverException" ELSE "None",
                     log    |-> IF fails THEN <<>> ELSE <<"INFO screenshot saved">>,
                     remote |-> <<"save_screenshot">>])
       /\ exc' = IF fails THEN "save_screenshot" ELSE exc
  /\ pc' = "method1_finally"
  /\ UNCHANGED <<driver, started, acquired, quitCalls, calls, driver1, driver2, uncaught>>
  /\ UNCHANGED <<logVars, threadVars, faultVars, waitVars, appVars>>

\* finally: logger.info(...); driver1.quit()
Method1Finally ==
  /\ pc = "method1_finally"
  /\ \E quitFails \in BOOLEAN :
       /\ LocalStep("quit",
                    [raised |-> IF quitFails THEN "WebDriverException" ELSE "None",
                     log    |-> <<"INFO stop browser">>,
                     remote |-> <<"quit">>])
       /\ AfterFinally(quitFails, "method2_setup")
  /\ quitCalls' = [quitCalls EXCEPT ![driver1] = @ + 1]
  /\ UNCHANGED <<driver, started, acquired, calls, driver1, driver2, exc>>
  /\ UNCHANGED <<logVars, threadVars, faultVars, waitVars, appVars>>

\* driver2 = setup_driver_with_options(), outside any try block.
Method2Setup ==
  /\ pc = "method2_setup"
  /\ \E stage \in SetupStages :
       LET r == setup_driver_with_options(stage, acquired) IN
       /\ acquired' = r.acquired
       /\ driver2' = r.ret
       /\ LocalStep("setup_driver_with_options",
                    [raised |-> r.raised, log |-> r.log, remote |-> <<>>])
       /\ pc' = IF r.raised = "None" THEN "method2_wait" ELSE "aborted"
       /\ uncaught' = IF r.raised = "None" THEN uncaught ELSE "setup_driver_with_options"
       /\ implicitWait' = IF r.raised = "None"
                            THEN [implicitWait EXCEPT ![r.ret] = r.implicit]
                            ELSE implicitWait
  /\ UNCHANGED <<driver, started, quitCalls, calls, driver1, exc>>
  /\ UNCHANGED <<logVars, threadVars, faultVars, untilUnder, appVars>>

\* try: example_wait_for_element(driver2)
Method2Wait ==
  /\ pc = "method2_wait"
  /\ \E failAt \in 0..NumRemote(WaitScript) :
       LET r == example_wait_for_element(failAt) IN
       /\ LocalStep("example_wait_for_element", r)
       /\ exc' = IF r.raised = "None" THEN exc ELSE "example_wait_for_element"
       /\ untilUnder' = UntilUnder(r.remote, implicitWait[driver2])
       /\ implicitWait' = [implicitWait EXCEPT ![driver2] =
                             ImplicitAt(r.remote, Len(r.remote) + 1, @)]
  /\ pc' = "method2_finally"
  /\ UNCHANGED <<driver, started, acquired, quitCalls, calls, driver1, driver2, uncaught>>
  /\ UNCHANGED <<logVars, threadVars, faultVars, appVars>>

\* finally: logger.info(...); driver2.quit()
Method2Finally ==
  /\ pc = "method2_finally"
  /\ \E quitFails \in BOOLEAN :
       /\ LocalStep("quit",
                    [raised |-> IF quitFails THEN "WebDriverException" ELSE "None",
                     log    |-> <<"INFO stop browser">>,
                     remote |-> <<"quit">>])
       /\ AfterFinally(quitFails, "method3_start")
  /\ quitCalls' = [quitCalls EXCEPT ![driver2] = @ + 1]
  /\ UNCHANGED <<driver, started, acquired, calls, driver1, driver2, exc>>
  /\ UNCHANGED <<logVars, threadVars, faultVars, waitVars, appVars>>

\* automation = WebAutomation(); try: automation.start()
Method3Start ==
  /\ pc = "method3_start"
  /\ \E stage \in SetupStages : start(stage)
  /\ pc' = IF raised' = "None" THEN "method3_search" ELSE "method3_finally"
  /\ exc' = IF raised' = "None" THEN exc ELSE "start"
  /\ output' = output \o callLog'
  /\ UNCHANGED <<driver1, driver2, uncaught>>
  /\ UNCHANGED <<logVars, threadVars, faultVars, untilUnder, appVars>>

\* automation.search_daifuku_recipe(...)
Method3Search ==
  /\ pc = "method3_search"
  /\ \E n \in 0..MaxResults : \E failAt \in 0..NumRemote(SearchScript(n)) :
       search_daifuku_recipe(n, failAt)
  /\ pc' = IF raised' = "None" THEN "method3_screenshot" ELSE "method3_finally"
  /\ exc' = IF raised' = "None" THEN exc ELSE "search"
  /\ output' = output \o callLog'
  /\ UNCHANGED <<driver1, driver2, uncaught>>
  /\ UNCHANGED <<logVars, threadVars, faultVars, waitVars, appVars>>

\* automation.take_screenshot(...)
Method3Screenshot ==
  /\ pc = "method3_screenshot"
  /\ \E failAt \in 0..NumRemote(ScreenshotScript) : take_screenshot(failAt)
  /\ pc' = "method3_finally"
  /\ exc' = IF raised' = "None" THEN exc ELSE "screenshot"
  /\ output' = output \o callLog'
  /\ UNCHANGED <<driver1, driver2, uncaught>>
  /\ UNCHANGED <<logVars, threadVars, faultVars, waitVars, appVars>>

\* finally: automation.stop()
Method3Finally ==
  /\ pc = "method3_finally"
  /\ \E quitFails \in BOOLEAN : stop(quitFails)
  /\ IF raised' # "None"
       THEN /\ pc' = "aborted"
            /\ uncaught' = "stop"
       ELSE IF exc # "None"
              THEN /\ pc' = "aborted"
                   /\ uncaught' = exc
              ELSE /\ pc' = "done"
                   /\ uncaught' = uncaught
  /\ output' = output \o callLog'
  /\ UNCHANGED <<driver1, driver2, exc>>
  /\ UNCHANGED <<logVars, threadVars, faultVars, waitVars, appVars>>

NextMain ==
  \/ Method1Setup \/ Method1Search \/ Method1Screenshot \/ Method1Finally
  \/ Method2Setup \/ Method2Wait \/ Method2Finally
  \/ Method3Start \/ Method3Search \/ Method3Screenshot \/ Method3Finally

SpecMain == Init /\ [][NextMain]_vars

MainEnded == pc \in {"done", "aborted"}

\* ------------------------------------------------ session state, derived
\* The class keeps no state field: the session is Active exactly when it
\* holds a driver (the test `if self.driver` / `if not self.driver`).
Active == driver # NoDriver

\* A stop() has released a handle and cleared the field, and no start()
\* has succeeded since.
Closed == driver = NoDriver /\ \E h \in Handles : quitCalls[h] > 0

Uninitialized == driver = NoDriver /\ \A h \in Handles : quitCalls[h] = 0

\* Browsers created so far on which quit() was never called.
Unreleased == {h \in 1..acquired : quitCalls[h] = 0}

IsAction(m) == m \in {"search", "screenshot"}

\* ------------------------------------------- two threads on one logger
\* One thread constructs AppLogger objects, statement by statement; another
\* logs through an AppLogger object built earlier for the same name, one
\* handler visit at a time.  list.clear, list.append and one step of the
\* list iterator are each atomic under the interpreter lock.

\* self.logger = logging.getLogger(name); self.logger.setLevel(DEBUG)
CtorBegin ==
  /\ ctor.pc = "idle"
  /\ built < MaxBuilt
  /\ \E name \in LoggerNames : \E log_to_file \in BOOLEAN :
       /\ handlers[name] # <<>>
       /\ ctor' = [pc |-> "clear", name |-> name, log_to_file |-> log_to_file]
  /\ UNCHANGED <<logVars, emit>>
  /\ UNCHANGED <<sessionVars, mainVars, faultVars, waitVars, appVars>>

\* self.logger.handlers.clear()
CtorClear ==
  /\ ctor.pc = "clear"
  /\ handlers' = [handlers EXCEPT ![ctor.name] = ClearHandlers(@)]
  /\ ctor' = [ctor EXCEPT !.pc = "console"]
  /\ UNCHANGED <<rootHandlers, built, logOp, record, delivered, complete, emit>>
  /\ UNCHANGED <<sessionVars, mainVars, faultVars, waitVars, appVars>>

\* The constructor returns: the list it leaves is a complete handler set.
CtorReturn(hs) ==
  /\ ctor' = CtorIdle
  /\ built' = built + 1
  /\ complete' = [complete EXCEPT ![ctor.name] = @ \cup {hs}]

\* self.logger.addHandler(console_handler)
CtorAddConsole ==
  /\ ctor.pc = "console"
  /\ handlers' = [handlers EXCEPT ![ctor.name] = AddHandler(@, ConsoleHandler(built + 1))]
  /\ IF ctor.log_to_file
       THEN /\ ctor' = [ctor EXCEPT !.pc = "file"]
            /\ UNCHANGED <<built, complete>>
       ELSE CtorReturn(handlers'[ctor.name])
  /\ UNCHANGED <<rootHandlers, logOp, record, delivered, emit>>
  /\ UNCHANGED <<sessionVars, mainVars, faultVars, waitVars, appVars>>

\* if log_to_file: ... self.logger.addHandler(file_handler)
CtorAddFile ==
  /\ ctor.pc = "file"
  /\ handlers' = [handlers EXCEPT ![ctor.name] = AddHandler(@, FileHandler(built + 1))]
  /\ CtorReturn(handlers'[ctor.name])
  /\ UNCHANGED <<rootHandlers, logOp, record, delivered, emit>>
  /\ UNCHANGED <<sessionVars, mainVars, faultVars, waitVars, appVars>>

\* self.logger.<level>(message): the level test, then callHandlers starts.
EmitBegin ==
  /\ emit.pc = "idle"
  /\ \E name \in LoggerNames : \E lv \in LevelNames :
       /\ complete[name] # {<<>>}
       /\ record' = [name |-> name, level |-> lv]
       /\ emit' = [pc |-> IF IsEnabledFor(LevelNo(lv)) THEN "own" ELSE "last",
                   idx |-> 0, found |-> 0]
  /\ delivered' = {}
  /\ logOp' = "logging"
  /\ UNCHANGED <<handlers, rootHandlers, built, complete, ctor>>
  /\ UNCHANGED <<sessionVars, mainVars, faultVars, waitVars, appVars>>

\* One round of `for hdlr in c.handlers` over the list hs as it is now.
Visit(hs, onward) ==
  IF emit.idx < Len(hs)
    THEN LET h == hs[emit.idx + 1] IN
         /\ emit' = [emit EXCEPT !.idx = @ + 1, !.found = @ + 1]
         /\ delivered' = IF Emits(h, LevelNo(record.level))
                           THEN delivered \cup {h} ELSE delivered
    ELSE /\ emit' = [emit EXCEPT !.pc = onward, !.idx = 0]
         /\ delivered' = delivered

\* callHandlers on the named logger's own list
EmitOwn ==
  /\ emit.pc = "own"
  /\ Visit(handlers[record.name], "root")
  /\ UNCHANGED <<handlers, rootHandlers, built, logOp, record, complete, ctor>>
  /\ UNCHANGED <<sessionVars, mainVars, faultVars, waitVars, appVars>>

\* callHandlers on the parent, the root logger
EmitRoot ==
  /\ emit.pc = "root"
  /\ Visit(rootHandlers, "last")
  /\ UNCHANGED <<handlers, rootHandlers, built, logOp, record, complete, ctor>>
  /\ UNCHANGED <<sessionVars, mainVars, faultVars, waitVars, appVars>>

\* if found == 0: the handler of last resort; the log call returns.
EmitReturn ==
  /\ emit.pc = "last"
  /\ delivered' = IF emit.found = 0 /\ Emits(LastResort, LevelNo(record.level))
                    THEN delivered \cup {LastResort} ELSE delivered
  /\ emit' = EmitIdle
  /\ logOp' = "log"
  /\ UNCHANGED <<handlers, rootHandlers, built, record, complete, ctor>>
  /\ UNCHANGED <<sessionVars, mainVars, faultVars, waitVars, appVars>>

\* A process in which "Shop" was constructed once, with or without a file
\* handler, and basicConfig() may have run.
InitConcurrent ==
  /\ InitSession
  /\ InitThreads
  /\ InitWait
  /\ InitApp
  /\ \E log_to_file \in BOOLEAN :
       /\ handlers = [n \in LoggerNames |->
                        IF n = "Shop" THEN NewHandlers(<<>>, 1, log_to_file) ELSE <<>>]
       /\ lastInit = [name |-> "Shop", log_to_file |-> log_to_file]
  /\ logRaised = "None"
  /\ diagnosed = {}
  /\ complete = [n \in LoggerNames |-> {handlers[n]}]
  /\ rootHandlers \in {<<>>, <<RootHandler>>}
  /\ built = 1
  /\ logOp = "AppLogger"
  /\ record = NoRecord
  /\ delivered = {}

NextConcurrent ==
  \/ CtorBegin \/ CtorClear \/ CtorAddConsole \/ CtorAddFile
  \/ EmitBegin \/ EmitOwn \/ EmitRoot \/ EmitReturn

SpecConcurrent == InitConcurrent /\ [][NextConcurrent]_vars

C2_StartWhileActiveRejected ==
  [][(Active /\ lastCall' = "start" /\ calls' = calls + 1)
       => (/\ raised' = "AlreadyStartedError"
           /\ driver' = driver
           /\ acquired' = acquired)]_vars

\* ------------------------------------------------------------------ C3
\* C3: in every reachable state the session holds no handle when it is
\* Uninitialized or Closed and one when Active, and the number of handles
\* acquired and not yet released is 1 if Active and 0 otherwise.
C3_OneHandleIffActive ==
  /\ (Uninitialized \/ Closed) => driver = NoDriver
  /\ Active => driver \in 1..acquired
  /\ Cardinality(Unreleased) = (IF Active THEN 1 ELSE 0)

\* ------------------------------------------------------------------ C4
\* C4: a start() that raises leaves the session not Active, holding no
\* handle, with every browser it had already created released.
C4_FailedStartReleases ==
  [][(lastCall' = "start" /\ calls' = calls + 1 /\ raised' # "None")
       => (/\ driver' = NoDriver
           /\ \A h \in (acquired + 1)..acquired' : quitCalls'[h] > 0)]_vars

\* ------------------------------------------------------------------ C5
\* C5: stop() never lets an exception out: after the stop() of main()'s
\* finally block the call has returned, the session holds no handle, and an
\* exception that was in flight is the one that leaves main().
C5_StopNeverRaises ==
  (MainEnded /\ lastCall = "stop")
    => (/\ raised = "None"
        /\ driver = NoDriver
        /\ uncaught = exc)

\* ------------------------------------------------------------------ C6
\* C6: an action called while the session holds no driver (before start()
\* or after stop()) raises the not-active error at once: nothing is sent to
\* a handle, nothing is logged, and the session state is unchanged.
C6_ActionWhenNotActiveRejected ==
  [][(~Active /\ IsAction(lastCall') /\ calls' = calls + 1)
       => (/\ raised' = "ValueError"
           /\ remoteLog' = <<>>
           /\ callLog' = <<>>
           /\ driver' = driver
           /\ acquired' = acquired
           /\ quitCalls' = quitCalls)]_vars

\* An action was rejected after a start() and a stop().
C6_Witness ==
  /\ Closed
  /\ IsAction(lastCall)
  /\ raised = "ValueError"

\* ------------------------------------------------------------------ C7
\* C7 as stated: once Closed, no later call makes the session Active or
\* makes it hold a handle again.
C7_ClosedIsTerminal ==
  [][Closed => (driver' = NoDriver)]_vars

\* C7 as amended: once Closed, no later action or stop() call makes the
\* session Active or makes it hold a handle again; it stays Closed until
\* start() is called, and a start() that succeeds then makes it Active with
\* a newly acquired handle.
C7_ClosedUntilStart ==
  [][/\ (Closed /\ lastCall' # "start") => Closed'
     /\ (Closed /\ lastCall' = "start" /\ calls' = calls + 1 /\ raised' = "None")
          => (Active' /\ driver' = acquired + 1 /\ acquired' = acquired + 1)]_vars

\* An action and a stop() were called on a Closed session.
C7_Witness ==
  /\ Closed
  /\ calls >= 3
  /\ lastCall \in {"search", "screenshot", "stop"}

\* ------------------------------------------------------------------ C8
\* C8: stop() is idempotent: a stop() that follows a stop() releases
\* nothing, logs nothing and changes nothing, and a stop() on a session
\* that was never started is a no-op.
C8_StopIdempotent ==
  [][((lastCall = "stop" \/ Uninitialized) /\ lastCall' = "stop" /\ calls' = calls + 1)
       => (/\ remoteLog' = <<>>
           /\ callLog' = <<>>
           /\ raised' = "None"
           /\ driver' = driver
           /\ quitCalls' = quitCalls)]_vars

\* ------------------------------------------------------------------ C9
\* The level order and the minimum level of each sink, as the claim gives them.
LevelOrder == <<"DEBUG", "INFO", "WARNING", "ERROR", "CRITICAL">>
Rank(lv) == CHOOSE i \in 1..Len(LevelOrder) : LevelOrder[i] = lv
C9_Minimum(h) == IF h.kind = "console" THEN "INFO" ELSE "DEBUG"

\* C9: a record logged at level L through a logger the facade built is
\* emitted by a handler of that logger if and only if L is at least the
\* handler's minimum level in DEBUG < INFO < WARNING < ERROR < CRITICAL,
\* the console handler's minimum being INFO and the file handler's DEBUG: a
\* DEBUG record reaches the file only, INFO and above reach both.
C9_DeliveredIffAtLeastMinimum ==
  logOp = "log"
    => \A h \in Range(handlers[record.name]) :
         (h \in delivered) <=> (Rank(record.level) >= Rank(C9_Minimum(h)))

\* A DEBUG record went to the file handler and not to the console handler
\* of a logger that has both.
C9_Witness ==
  /\ logOp = "log"
  /\ record.level = "DEBUG"
  /\ \E h \in Range(handlers[record.name]) : h.kind = "file" /\ h \in delivered
  /\ \E h \in Range(handlers[record.name]) : h.kind = "console" /\ h \notin delivered

\* ----------------------------------------------------------------- C10
\* The facade's own handlers among hs, and the handlers of the list hs whose
\* minimum level admits a record at level lv.
FacadeHandlers(hs) == {h \in hs : h.kind \in {"console", "file"}}
Admitted(hs, lv) == {h \in Range(hs) : Rank(lv) >= Rank(C9_Minimum(h))}

\* C10: a record logged while another thread constructs AppLogger for the
\* same name is emitted by the handlers of one complete handler set of the
\* logger, the old one or the new one: by all of that set whose minimum
\* level admits it, and by no handler of another set.
C10_AtomicReplacement ==
  (emit.pc = "idle" /\ record # NoRecord)
    => \E hs \in complete[record.name] :
         /\ hs # <<>>
         /\ FacadeHandlers(delivered) = Admitted(hs, record.level)

\* ----------------------------------------------------------------- C11
\* Number of handlers of kind k in the list hs.
KindCount(hs, k) == Cardinality({i \in 1..Len(hs) : hs[i].kind = k})

\* C11: constructing AppLogger again for a name does not duplicate sinks:
\* a logger never holds two console handlers, two file handlers or
\* handlers of two constructions, and when a construction has returned the
\* logger holds exactly that construction's handlers: one console handler,
\* plus one file handler if and only if log_to_file was set.
C11_NoDuplicateSinks ==
  /\ \A name \in LoggerNames :
       LET hs == handlers[name] IN
       /\ KindCount(hs, "console") <= 1
       /\ KindCount(hs, "file") <= 1
       /\ \A i, j \in 1..Len(hs) : hs[i].gen = hs[j].gen
  /\ (logOp = "AppLogger" /\ logRaised = "None")
       => LET hs == handlers[lastInit.name] IN
          /\ KindCount(hs, "console") = 1
          /\ KindCount(hs, "file") = (IF lastInit.log_to_file THEN 1 ELSE 0)
          /\ Len(hs) = (IF lastInit.log_to_file THEN 2 ELSE 1)
          /\ \A i \in 1..Len(hs) : hs[i].gen = built

\* The third construction for one name has returned, after constructions
\* with and without a file handler.
C11_Witness ==
  /\ logOp = "AppLogger"
  /\ logRaised = "None"
  /\ built = 3
  /\ Cardinality(complete[lastInit.name]) >= 3
  /\ \E hs \in complete[lastInit.name] : Len(hs) = 2
  /\ ~lastInit.log_to_file

C13_ExplicitWaitSuspendsImplicit ==
  lastCall = "example_wait_for_element"
    => /\ \A i \in 1..Len(untilUnder) : untilUnder[i] = 0
       /\ implicitWait[driver2] = ImplicitWaitSeconds

\* ----------------------------------------------------------------- C15
\* C15: the __main__ block of python_debug_logging.py runs its steps in
\* order (basic logging, file logging, error handling, pdb example, the
\* decorated shop demo) and ends normally: no exception leaves the script.
C15_DemoRunsToCompletion ==
  /\ demoUncaught = "None"
  /\ demoPc # "crashed"

\* ----------------------------------------------------------------- C16
\* C16: an action that fails on an Active session changes no session
\* state (same handle, nothing released), and the stop() that follows it
\* moves the session to Closed, the handle having been released exactly
\* once.
C16_FailedActionThenStop ==
  [][/\ (Active /\ IsAction(lastCall') /\ calls' = calls + 1 /\ raised' # "None")
          => (/\ driver' = driver
              /\ acquired' = acquired
              /\ quitCalls' = quitCalls)
     /\ (Active /\ IsAction(lastCall) /\ raised # "None"
            /\ lastCall' = "stop" /\ calls' = calls + 1)
          => (/\ Closed'
              /\ quitCalls'[driver] = 1)]_vars

\* ----------------------------------------------------------------- C17
\* The remote operations of each action in the order the method sends
\* them, and the error-level records among the records of a call.
IsPrefix(a, b) == Len(a) <= Len(b) /\ a = SubSeq(b, 1, Len(a))
C17_Operations(m) ==
  IF m = "search"
    THEN <<"get", "find_element", "send_keys keyword", "send_keys RETURN",
           "find_elements", "text", "text", "text">>
    ELSE <<"save_screenshot">>
C17_Count(seq, x) == Cardinality({i \in 1..Len(seq) : seq[i] = x})
C17_Errors(log) == {i \in 1..Len(log) : log[i] \in {"ERROR search", "ERROR screenshot"}}

\* C17: a failure of an action on an Active session is surfaced and not
\* retried: the operations sent are a prefix of the method's sequence that
\* ends with the one that failed (each attempted once, none after it),
\* exactly one error record is logged, as the last record of the call, and
\* the exception of the remote operation leaves the call.  Every result
\* text that was read is logged once, except the one whose read failed.
C17_FailureSurfacedOnce ==
  [][(Active /\ IsAction(lastCall') /\ calls' = calls + 1 /\ remoteLog' # <<>>)
       => /\ IsPrefix(remoteLog', C17_Operations(lastCall'))
          /\ (raised' # "None")
               => (/\ raised' = "WebDriverException"
                   /\ C17_Errors(callLog') = {Len(callLog')})
          /\ (raised' = "None") => (C17_Errors(callLog') = {})
          /\ C17_Count(callLog', "INFO result") =
               C17_Count(remoteLog', "text") -
                 (IF raised' # "None" /\ remoteLog'[Len(remoteLog')] = "text"
                    THEN 1 ELSE 0)]_vars

\* A search failed at its third remote operation or later.
C17_Witness ==
  /\ lastCall = "search"
  /\ raised = "WebDriverException"
  /\ Len(remoteLog) >= 3
  /\ driver # NoDriver

\* ----------------------------------------------------------------- C18
\* Position of the call of func among the events of a wrapper call, and the
\* outcome records written after it.
C18_CallAt == CHOOSE i \in 1..Len(wrapLog) : wrapLog[i] = "CALL func"
C18_Successes == C17_Count(wrapLog, "INFO success")
C18_Errors == C17_Count(wrapLog, "ERROR failed")
C18_EntryThenOneCall ==
  /\ wrapLog[1] = "INFO start"
  /\ Len(fCalls) = 1
  /\ C17_Count(wrapLog, "CALL func") = 1
  /\ \A i \in 1..Len(wrapLog) :
       wrapLog[i] \in {"INFO success", "ERROR failed"} => i > C18_CallAt

C19_ShopArithmetic ==
  [][(shopCalls' = shopCalls + 1)
       => LET c == shopRet' IN
          /\ stock' >= 0
          /\ sales' >= sales
          /\ (c.count <= 0 \/ (c.op = "sell" /\ stock < c.count))
               => (~c.ret /\ stock' = stock /\ sales' = sales)
          /\ (c.op = "sell" /\ c.count > 0 /\ stock >= c.count)
               => (/\ c.ret
                   /\ stock' = stock - c.count
                   /\ sales' = sales + c.count * c.price)]_vars

\* ----------------------------------------------------------------- C20
\* C20: file_logging_example() does not accumulate sinks: after any number
\* of calls that returned, the module logger holds exactly one file handler
\* and exactly one console handler.
C20_NoSinkAccumulation ==
  (logOp = "file_logging_example" /\ logRaised = "None")
    => /\ KindCount(moduleHandlers, "file") = 1
       /\ KindCount(moduleHandlers, "console") = 1

====
